---- MODULE Spec2Model ----
(***************************************************************************)
(* Model of jsSAPI's Storage / SyncStorage / AsyncStorage (src/src/index.js) *)
(* Strings are sequences of one-character strings so that String.split is  *)
(* computed, arrays live in a heap so that aliasing after a clone shows.    *)
(***************************************************************************)
EXTENDS Integers, Sequences, FiniteSets, TLC

VARIABLES views, heap, ghost, store, last, pending, dev, plan

vars == <<views, heap, ghost, store, last, pending, dev, plan>>

(* ------------------------------ bounds --------------------------------- *)
MaxStrLen == 2
MaxArrLen == 2
MaxViews == 3
MaxDerived == 1
MaxEntries == 2
MaxBatch == 2

(* ------------------------------ strings -------------------------------- *)
keySeparator == "."

Chars == {"a", "b", keySeparator}

RECURSIVE StringsUpTo(_)
StringsUpTo(n) ==
    IF n = 0 THEN {<<>>}
    ELSE LET S == StringsUpTo(n - 1)
         IN  S \cup {Append(s, c) : s \in {t \in S : Len(t) = n - 1}, c \in Chars}

RECURSIVE SeqsUpTo(_, _)
SeqsUpTo(S, n) ==
    IF n = 0 THEN {<<>>}
    ELSE LET P == SeqsUpTo(S, n - 1)
         IN  P \cup {Append(q, x) : q \in {t \in P : Len(t) = n - 1}, x \in S}

HasSep(s) == \E i \in 1..Len(s) : s[i] = keySeparator

FirstSep(s) == CHOOSE i \in 1..Len(s) : s[i] = keySeparator /\ \A j \in 1..(i - 1) : s[j] # keySeparator

\* String.prototype.split(separator) with a one-character separator
RECURSIVE Split(_)
Split(s) ==
    IF ~HasSep(s) THEN <<s>>
    ELSE LET i == FirstSep(s)
         IN  <<SubSeq(s, 1, i - 1)>> \o Split(SubSeq(s, i + 1, Len(s)))

(* ------------------------------- keys ---------------------------------- *)
\* A caller-side key: a string, an array of segments, or anything else (a number)
StrKey(s) == [kind |-> "str", str |-> s, arr |-> <<>>]
ArrKey(a) == [kind |-> "arr", str |-> <<>>, arr |-> a]
OtherKey == [kind |-> "other", str |-> <<>>, arr |-> <<>>]

isString(k) == k.kind = "str"
isArray(k) == k.kind = "arr"
isEmpty(k) ==
    CASE k.kind = "str" -> k.str = <<>>
      [] k.kind = "arr" -> k.arr = <<>>
      [] OTHER -> TRUE

\* key.split is not a function: a TypeError for anything but a string or an array
KeyThrows(k) == ~isString(k) /\ ~isArray(k)

getKeyParts(k) == IF isArray(k) THEN k.arr ELSE Split(k.str)

(* ------------------------------- views --------------------------------- *)
SYNC == "sync"
ASYNC == "async"

\* new Storage(storage, namespace): the extender array is a fresh heap object
Construct(h, type, storage, namespace) ==
    [view |-> [_type |-> type, _storage |-> storage, _namespace |-> namespace,
               _namespaceExtenders |-> Len(h) + 1],
     heap |-> Append(h, <<>>)]

\* a resolution that puts the extenders after the key's own segments
generateKeyExtendersLast(h, view, k) ==
    <<view._namespace>> \o getKeyParts(k) \o h[view._namespaceExtenders]

generateKey(h, view, k) ==
    <<view._namespace>> \o h[view._namespaceExtenders] \o getKeyParts(k)

ShortcutRejects(p) == (~isString(p) /\ ~isArray(p)) \/ isEmpty(p)

\* a clone that shares the extender array with its source
CloneShallow(h, view) == [view |-> view, heap |-> h]

\* cloneDeepWith(this, customizer): _storage is kept by reference, the rest is copied
cloneDeepWith(h, view) ==
    [view |-> [view EXCEPT !._namespaceExtenders = Len(h) + 1],
     heap |-> Append(h, h[view._namespaceExtenders])]

makeShortcut(h, view, p) ==
    LET c == cloneDeepWith(h, view)
    IN  [view |-> c.view,
         heap |-> [c.heap EXCEPT ![c.view._namespaceExtenders] = @ \o getKeyParts(p)]]

(* --------------------------- values and errors -------------------------- *)
\* One shape for everything a call can yield: a value, a boolean, a list, a Map or a failure
Val(t, v, b, list, map, e) == [t |-> t, v |-> v, b |-> b, list |-> list, map |-> map, e |-> e]
Ok(v) == Val("ok", v, FALSE, <<>>, <<>>, "")
OkBool(b) == Val("ok", 0, b, <<>>, <<>>, "")
OkList(l) == Val("ok", 0, FALSE, l, <<>>, "")
OkMap(m) == Val("ok", 0, FALSE, <<>>, m, "")
OkVoid == Val("ok", 0, FALSE, <<>>, <<>>, "")
\* a thrown error / a rejected handle / a JSSAPIError instance inside a result list
Fail(e) == Val("err", 0, FALSE, <<>>, <<>>, e)

NotFound == "JSSAPIError.NotFound"
TypeError == "TypeError"
ProducerError == "ProducerError"

\* the `def` argument: undefined, a plain value, or a zero-argument function
NoDef == [t |-> "undef", v |-> 0, e |-> ""]
DefVal(v) == [t |-> "val", v |-> v, e |-> ""]
DefFn(v) == [t |-> "fn", v |-> v, e |-> ""]
DefFnThrow == [t |-> "fn", v |-> 0, e |-> ProducerError]

isFunction(def) == def.t = "fn"
\* def()
Invoke(def) == IF def.e = "" THEN Ok(def.v) ELSE Fail(def.e)

\* a test for a missing default that takes every falsy default for a missing one
handleGetterErrorFalsy(error, def) ==
    IF def.t = "undef" \/ (def.t = "val" /\ def.v = 0) THEN [res |-> Fail(error), invoked |-> 0]
    ELSE IF isFunction(def) THEN [res |-> Invoke(def), invoked |-> 1]
    ELSE [res |-> Ok(def.v), invoked |-> 0]

\* handleGetterError: res is what is returned (t = "ok") or thrown (t = "err")
handleGetterError(error, def) ==
    IF def.t = "undef" THEN [res |-> Fail(error), invoked |-> 0]
    ELSE IF isFunction(def) THEN [res |-> Invoke(def), invoked |-> 1]
    ELSE [res |-> Ok(def.v), invoked |-> 0]

(* ------------------------------- JS Map --------------------------------- *)
\* canonical keys are arrays: two arrays holding the same segments are one key
SameContents(x, y) == x.val = y.val

\* canonical keys are arrays made by _generateKey: a Map tells them apart by reference
SameRef(x, y) == x.ref = y.ref

\* caller keys: strings (and numbers) by value, arrays by reference
SameValueZero(x, y) ==
    /\ x.key.kind = y.key.kind
    /\ CASE isString(x.key) -> x.key.str = y.key.str
         [] isArray(x.key) -> x.ref = y.ref
         [] OTHER -> TRUE

\* the key identity of a Map whose keys are canonical keys, or the caller's keys
CanonicalKeys == "canonical"
CallerKeys == "caller"
SameKey(keyType, x, y) == IF keyType = CanonicalKeys THEN SameRef(x, y) ELSE SameValueZero(x, y)

\* A Map is its entries in insertion order
RECURSIVE MapIndex(_, _, _, _)
MapIndex(m, k, keyType, i) ==
    IF i > Len(m) THEN 0
    ELSE IF SameKey(keyType, m[i].k, k) THEN i
    ELSE MapIndex(m, k, keyType, i + 1)

MapSet(m, k, v, keyType) ==
    LET i == MapIndex(m, k, keyType, 1)
    IN  IF i = 0 THEN Append(m, [k |-> k, v |-> v]) ELSE [m EXCEPT ![i].v = v]

MapGet(m, k, keyType) == m[MapIndex(m, k, keyType, 1)].v

(* ------------------------------ backend --------------------------------- *)
\* The Backend collaborator: a store from canonical keys to values.  A lookup of
\* an absent key fails; removal is prefix removal.
IsPrefix(p, k) == Len(p) <= Len(k) /\ SubSeq(k, 1, Len(p)) = p

Call(m, keys, vals) == [m |-> m, keys |-> keys, vals |-> vals]

StoreGet(st, k) == IF k \in DOMAIN st THEN Ok(st[k]) ELSE Fail(NotFound)
StoreSet(st, k, v) == [x \in (DOMAIN st) \cup {k} |-> IF x = k THEN v ELSE st[x]]
StoreRemove(st, k) == [x \in {y \in DOMAIN st : ~IsPrefix(k, y)} |-> st[x]]

RECURSIVE StoreSetAll(_, _, _)
StoreSetAll(st, keys, vals) ==
    IF keys = <<>> THEN st
    ELSE StoreSetAll(StoreSet(st, Head(keys), Head(vals)), Tail(keys), Tail(vals))

RECURSIVE StoreRemoveAll(_, _)
StoreRemoveAll(st, keys) ==
    IF keys = <<>> THEN st ELSE StoreRemoveAll(StoreRemove(st, Head(keys)), Tail(keys))

\* what the backend answers (directly, or as the settled value of its handle) and its new contents
BackendCall(st, c) ==
    CASE c.m = "getItem" -> [raw |-> StoreGet(st, c.keys[1]), st |-> st]
      [] c.m = "getItems" ->
            [raw |-> OkList([i \in 1..Len(c.keys) |-> StoreGet(st, c.keys[i])]), st |-> st]
      [] c.m = "setItem" -> [raw |-> OkVoid, st |-> StoreSet(st, c.keys[1], c.vals[1])]
      [] c.m = "setItems" -> [raw |-> OkVoid, st |-> StoreSetAll(st, c.keys, c.vals)]
      [] c.m = "hasKey" -> [raw |-> OkBool(c.keys[1] \in DOMAIN st), st |-> st]
      [] c.m = "hasKeys" ->
            [raw |-> OkList([i \in 1..Len(c.keys) |-> OkBool(c.keys[i] \in DOMAIN st)]), st |-> st]
      [] c.m = "removeItem" -> [raw |-> OkVoid, st |-> StoreRemove(st, c.keys[1])]
      [] c.m = "removeItems" -> [raw |-> OkVoid, st |-> StoreRemoveAll(st, c.keys)]

(* ------------------------- result reconciliation ------------------------ *)
isJSSAPIError(result) == result.t = "err"

\* a reconciliation without the try/catch: the first error handleGetterError throws escapes
handleGetItemsResultNoCatch(keys, defaultValues, resultList) ==
    LET at(i) == IF isJSSAPIError(resultList[i])
                 THEN handleGetterError(resultList[i].e, MapGet(defaultValues, keys[i], CanonicalKeys))
                 ELSE [res |-> resultList[i], invoked |-> 0]
        thrown == {i \in 1..Len(resultList) : at(i).res.t = "err"}
    IN  IF thrown # {} THEN [res |-> Fail(at(CHOOSE i \in thrown : \A j \in thrown : i <= j).res.e),
                             invoked |-> 0]
        ELSE [res |-> OkList([i \in 1..Len(resultList) |-> at(i).res]), invoked |-> 0]

\* handleGetItemsResult: every failure marker is replaced by what handleGetterError
\* returns or throws for the default stored under keys[index]
handleGetItemsResult(keys, defaultValues, resultList) ==
    LET at(i) == IF isJSSAPIError(resultList[i])
                 THEN handleGetterError(resultList[i].e, MapGet(defaultValues, keys[i], CanonicalKeys))
                 ELSE [res |-> resultList[i], invoked |-> 0]
        RECURSIVE Sum(_)
        Sum(i) == IF i = 0 THEN 0 ELSE at(i).invoked + Sum(i - 1)
    IN  [res |-> OkList([i \in 1..Len(resultList) |-> at(i).res]),
         invoked |-> Sum(Len(resultList))]

\* a Map filled in an order that forgets which position an answer belongs to
RECURSIVE HasKeysMapReversed(_, _, _)
HasKeysMapReversed(keys, resultList, i) ==
    IF i = 0 THEN <<>>
    ELSE MapSet(HasKeysMapReversed(keys, resultList, i - 1), keys[i],
                resultList[Len(resultList) + 1 - i].b, CallerKeys)

\* resultMap after the first i iterations of resultList.forEach
RECURSIVE HasKeysMap(_, _, _)
HasKeysMap(keys, resultList, i) ==
    IF i = 0 THEN <<>>
    ELSE MapSet(HasKeysMap(keys, resultList, i - 1), keys[i], resultList[i].b, CallerKeys)

handleHasKeysResult(keys, resultList) == OkMap(HasKeysMap(keys, resultList, Len(resultList)))

(* --------------------------- Storage methods ---------------------------- *)
\* What a public method does before the backend answers: it throws (err), or it
\* issues one backend call and keeps `cont` for the code that handles the answer.
NoCall == Call("none", <<>>, <<>>)
NoCont == [def |-> NoDef, keys |-> <<>>, defaults |-> <<>>, orig |-> <<>>]
Thrown(e) == [err |-> e, call |-> NoCall, cont |-> NoCont, warnings |-> <<>>]
Req(c, cont) == [err |-> "", call |-> c, cont |-> cont, warnings |-> <<>>]

Vals(seq) == [i \in 1..Len(seq) |-> seq[i].val]

getItem(h, view, key, def) ==
    IF KeyThrows(key) THEN Thrown(TypeError)
    ELSE Req(Call("getItem", <<generateKey(h, view, key)>>, <<>>), [NoCont EXCEPT !.def = def])

\* a getItems entry: a key, or a {path, default} record
PlainEntry(key) == [rec |-> FALSE, key |-> key, def |-> NoDef]
RecEntry(path, def) == [rec |-> TRUE, key |-> path, def |-> def]
Truthy(key) == ~(isString(key) /\ key.str = <<>>)
\* keyData.path || keyData
PathOf(entry) == IF entry.rec /\ ~Truthy(entry.key) THEN OtherKey ELSE entry.key
\* keyData.default
DefaultOf(entry) == IF entry.rec THEN entry.def ELSE NoDef

RECURSIVE FillDefaults(_, _, _)
FillDefaults(nextKeys, batch, i) ==
    IF i = 0 THEN <<>>
    ELSE MapSet(FillDefaults(nextKeys, batch, i - 1), nextKeys[i], DefaultOf(batch[i]), CanonicalKeys)

getItems(h, view, batch) ==
    IF \E i \in 1..Len(batch) : KeyThrows(PathOf(batch[i])) THEN Thrown(TypeError)
    ELSE LET nextKeys == [i \in 1..Len(batch) |->
                             [ref |-> i, val |-> generateKey(h, view, PathOf(batch[i]))]]
         IN  Req(Call("getItems", Vals(nextKeys), <<>>),
                 [NoCont EXCEPT !.keys = nextKeys,
                                !.defaults = FillDefaults(nextKeys, batch, Len(batch))])

setItem(h, view, key, value) ==
    IF KeyThrows(key) THEN Thrown(TypeError)
    ELSE Req(Call("setItem", <<generateKey(h, view, key)>>, <<value>>), NoCont)

isEqual(x, y) == x = y

\* the overlap test the spec words: a warning only for a strictly longer key
WarnsStrictPrefixOnly(keyToOverwrite, valueToOverwrite, keyToBeOverwritten, valueToBeOverwritten) ==
    /\ Len(keyToOverwrite) > Len(keyToBeOverwritten)
    /\ isEqual(keyToBeOverwritten, SubSeq(keyToOverwrite, 1, Len(keyToBeOverwritten)))

\* the body of the inner loop of setItems: TRUE when console.warn is reached
Warns(keyToOverwrite, valueToOverwrite, keyToBeOverwritten, valueToBeOverwritten) ==
    /\ ~(isEqual(keyToOverwrite, keyToBeOverwritten) /\ isEqual(valueToOverwrite, valueToBeOverwritten))
    /\ ~(Len(keyToOverwrite) < Len(keyToBeOverwritten))
    /\ isEqual(keyToBeOverwritten, SubSeq(keyToOverwrite, 1, Len(keyToBeOverwritten)))

\* the (i, j) pairs of entries, in loop order, for which a warning is printed
OverlapWarnings(nextKVMap) ==
    LET n == Len(nextKVMap)
        pairs == [p \in 1..(n * n) |-> <<((p - 1) \div n) + 1, ((p - 1) % n) + 1>>]
        Test(p) == Warns(nextKVMap[p[1]].k.val, nextKVMap[p[1]].v,
                         nextKVMap[p[2]].k.val, nextKVMap[p[2]].v)
    IN  SelectSeq(pairs, Test)

RECURSIVE FillNextKVMap(_, _, _, _)
FillNextKVMap(h, view, kv, i) ==
    IF i = 0 THEN <<>>
    ELSE MapSet(FillNextKVMap(h, view, kv, i - 1),
                [ref |-> i, val |-> generateKey(h, view, kv[i].key)], kv[i].value, CanonicalKeys)

setItems(h, view, kv, isDev) ==
    IF \E i \in 1..Len(kv) : KeyThrows(kv[i].key) THEN Thrown(TypeError)
    ELSE LET nextKVMap == FillNextKVMap(h, view, kv, Len(kv))
             keys == [i \in 1..Len(nextKVMap) |-> nextKVMap[i].k.val]
             vals == [i \in 1..Len(nextKVMap) |-> nextKVMap[i].v]
         IN  [Req(Call("setItems", keys, vals), NoCont)
                 EXCEPT !.warnings = IF isDev THEN OverlapWarnings(nextKVMap) ELSE <<>>]

hasKey(h, view, key) ==
    IF KeyThrows(key) THEN Thrown(TypeError)
    ELSE Req(Call("hasKey", <<generateKey(h, view, key)>>, <<>>), NoCont)

\* _hasKeys up to the backend call (the same statements in both subclasses)
hasKeys(h, view, keys) ==
    IF \E i \in 1..Len(keys) : KeyThrows(keys[i].key) THEN Thrown(TypeError)
    ELSE Req(Call("hasKeys", [i \in 1..Len(keys) |-> generateKey(h, view, keys[i].key)], <<>>),
             [NoCont EXCEPT !.orig = keys])

removeItem(h, view, key) ==
    IF KeyThrows(key) THEN Thrown(TypeError)
    ELSE Req(Call("removeItem", <<generateKey(h, view, key)>>, <<>>), NoCont)

removeItems(h, view, keys) ==
    IF \E i \in 1..Len(keys) : KeyThrows(keys[i]) THEN Thrown(TypeError)
    ELSE Req(Call("removeItems", [i \in 1..Len(keys) |-> generateKey(h, view, keys[i])], <<>>),
             NoCont)

\* a clear that removes only what lies under the view's own extended prefix
clearOwnPrefix(h, view) ==
    Req(Call("removeItem", <<<<view._namespace>> \o h[view._namespaceExtenders]>>, <<>>), NoCont)

clear(h, view) == Req(Call("removeItem", <<<<view._namespace>>>>, <<>>), NoCont)

(* ------------------------- execution-mode adapters ---------------------- *)
Plain(raw) == [res |-> raw, invoked |-> 0]

\* try { return this._storage.getItem(key) } catch (e) { return handleGetterError(e, def) }
SyncStorage_getItem(raw, def) ==
    IF raw.t = "err" THEN handleGetterError(raw.e, def) ELSE Plain(raw)

SyncStorage_getItems(raw, keys, defaultValues) ==
    IF raw.t = "err" THEN Plain(raw) ELSE handleGetItemsResult(keys, defaultValues, raw.list)

SyncStorage_hasKeys(raw, keys) ==
    IF raw.t = "err" THEN Plain(raw) ELSE Plain(handleHasKeysResult(keys, raw.list))

\* a getItem that hands the backend's handle back without a catch continuation
AsyncStorage_getItemNoCatch(promise, def) == Plain(promise)

\* this._storage.getItem(key).catch(e => handleGetterError(e, def))
AsyncStorage_getItem(promise, def) ==
    IF promise.t = "err" THEN handleGetterError(promise.e, def) ELSE Plain(promise)

\* this._storage.getItems(keys).then(resultList => handleGetItemsResult(...))
AsyncStorage_getItems(promise, keys, defaultValues) ==
    IF promise.t = "ok" THEN handleGetItemsResult(keys, defaultValues, promise.list)
    ELSE Plain(promise)

\* this._storage.hasKeys(formattedKeys).then(resultList => handleHasKeysResult(keys, resultList))
AsyncStorage_hasKeys(promise, keys) ==
    IF promise.t = "ok" THEN Plain(handleHasKeysResult(keys, promise.list)) ELSE Plain(promise)

\* the value a synchronous call returns (t = "ok") or the error it throws (t = "err")
SyncResult(op, raw, cont) ==
    CASE op = "getItem" -> SyncStorage_getItem(raw, cont.def)
      [] op = "getItems" -> SyncStorage_getItems(raw, cont.keys, cont.defaults)
      [] op = "hasKeys" -> SyncStorage_hasKeys(raw, cont.orig)
      [] OTHER -> Plain(raw)

\* the value the returned handle is fulfilled with, or the error it is rejected with
AsyncResult(op, promise, cont) ==
    CASE op = "getItem" -> AsyncStorage_getItem(promise, cont.def)
      [] op = "getItems" -> AsyncStorage_getItems(promise, cont.keys, cont.defaults)
      [] op = "hasKeys" -> AsyncStorage_hasKeys(promise, cont.orig)
      [] OTHER -> Plain(promise)

(* ------------------------------ inputs ---------------------------------- *)
Strings == StringsUpTo(MaxStrLen)
Segments == {<<>>, <<"a">>, <<"b">>}
Arrays == SeqsUpTo(Segments, MaxArrLen)

\* every key a resolution is checked for
Keys == {StrKey(s) : s \in Strings} \cup {ArrKey(a) : a \in Arrays}

Namespaces == {<<"n">>, <<"m">>}
NamespaceArgs == {StrKey(n) : n \in Namespaces} \cup {OtherKey}

ShortcutParts ==
    {StrKey(<<>>), StrKey(<<"a">>), StrKey(<<"a", ".", "b">>), StrKey(<<".">>),
     ArrKey(<<>>), ArrKey(<<<<"a">>>>), ArrKey(<<<<"a">>, <<"b">>>>), OtherKey}

Modes == {SYNC, ASYNC}
Backend(mode) == IF mode = SYNC THEN "syncBackend" ELSE "asyncBackend"
Backends == {Backend(m) : m \in Modes}

(* ------------------------- bookkeeping of a call ------------------------ *)
EmptyStore == [k \in {} |-> 0]

NoInput == [key |-> OtherKey, def |-> NoDef, value |-> 0, batch |-> <<>>, keys |-> <<>>,
            kv |-> <<>>, part |-> OtherKey]
Unsettled == Val("pending", 0, FALSE, <<>>, <<>>, "")
NoOp == [op |-> "none", mode |-> SYNC, view |-> 0, in |-> NoInput, raw |-> OkVoid,
         before |-> EmptyStore, sync |-> OkVoid, async |-> OkVoid, invokedS |-> 0, invokedA |-> 0, settled |-> TRUE,
         callsS |-> <<>>, callsA |-> <<>>, warnS |-> <<>>, warnA |-> <<>>]

\* the call a run is going to make, when the run is about one call
NoPlan == [op |-> "none", in |-> NoInput]

\* ghost: for every view the view it was derived from and the namespaceParts applied so far
Root == [parent |-> 0, parts |-> <<>>]

TotalViews == Len(views[SYNC]) + Len(views[ASYNC])

(* ---------------------- views alone: SpecKeys --------------------------- *)
InitKeys ==
    \E mode \in Modes, n \in Namespaces :
        LET c == Construct(<<>>, mode, Backend(mode), n)
        IN  /\ views = [m \in Modes |-> IF m = mode THEN <<c.view>> ELSE <<>>]
            /\ heap = c.heap
            /\ ghost = [m \in Modes |-> IF m = mode THEN <<Root>> ELSE <<>>]
            /\ store = [b \in Backends |-> EmptyStore]
            /\ last = NoOp
            /\ pending = <<>>
            /\ dev = FALSE
            /\ plan = NoPlan

\* new SyncStorage(storage, namespace) / new AsyncStorage(storage, namespace)
KConstruct(mode, arg) ==
    /\ TotalViews < MaxViews
    /\ IF ~isString(arg)
       THEN /\ last' = [NoOp EXCEPT !.op = "constructor", !.mode = mode,
                                    !.sync = Fail("JSSAPIError"), !.async = Fail("JSSAPIError")]
            /\ UNCHANGED <<views, heap, ghost>>
       ELSE LET c == Construct(heap, mode, Backend(mode), arg.str)
            IN  /\ views' = [views EXCEPT ![mode] = Append(@, c.view)]
                /\ heap' = c.heap
                /\ ghost' = [ghost EXCEPT ![mode] = Append(@, Root)]
                /\ last' = [NoOp EXCEPT !.op = "constructor", !.mode = mode,
                                        !.view = Len(views'[mode])]
    /\ UNCHANGED <<store, pending, dev, plan>>

\* view.makeShortcut(namespacePart) on the i-th view of a mode
KMakeShortcut(mode, i, p) ==
    /\ TotalViews < MaxViews
    /\ i \in 1..Len(views[mode])
    /\ IF ShortcutRejects(p)
       THEN /\ last' = [NoOp EXCEPT !.op = "makeShortcut", !.mode = mode, !.view = i, !.in.part = p,
                                    !.sync = Fail("JSSAPIError"), !.async = Fail("JSSAPIError")]
            /\ UNCHANGED <<views, heap, ghost>>
       ELSE LET r == makeShortcut(heap, views[mode][i], p)
            IN  /\ views' = [views EXCEPT ![mode] = Append(@, r.view)]
                /\ heap' = r.heap
                /\ ghost' = [ghost EXCEPT ![mode] =
                                Append(@, [parent |-> i, parts |-> Append(ghost[mode][i].parts, p)])]
                /\ last' = [NoOp EXCEPT !.op = "makeShortcut", !.mode = mode, !.view = i,
                                        !.in.part = p]
    /\ UNCHANGED <<store, pending, dev, plan>>

NextKeys ==
    \/ \E mode \in Modes, arg \in NamespaceArgs : KConstruct(mode, arg)
    \/ \E mode \in Modes, i \in 1..MaxViews, p \in ShortcutParts : KMakeShortcut(mode, i, p)

SpecKeys == InitKeys /\ [][NextKeys]_vars

(* ------------------------- properties of SpecKeys ----------------------- *)
AllViews == {<<m, i>> : m \in Modes, i \in 1..MaxViews}
Existing == {x \in AllViews : x[2] <= Len(views[x[1]])}
ViewAt(x) == views[x[1]][x[2]]
GhostAt(x) == ghost[x[1]][x[2]]

RECURSIVE Join(_)
Join(segs) ==
    IF Len(segs) = 1 THEN segs[1] ELSE segs[1] \o <<keySeparator>> \o Join(Tail(segs))

\* segs are the segments of key k: the array itself, or the separator-free pieces of the string
IsSegmentsOf(segs, k) ==
    IF isArray(k) THEN segs = k.arr
    ELSE /\ Len(segs) >= 1
         /\ \A i \in 1..Len(segs) : ~HasSep(segs[i])
         /\ Join(segs) = k.str

\* segs is the concatenation of the segments of the keys of ks, in order
RECURSIVE IsSegmentsOfAll(_, _)
IsSegmentsOfAll(segs, ks) ==
    IF ks = <<>> THEN segs = <<>>
    ELSE \E n \in 0..Len(segs) :
            /\ IsSegmentsOf(SubSeq(segs, 1, n), Head(ks))
            /\ IsSegmentsOfAll(SubSeq(segs, n + 1, Len(segs)), Tail(ks))

\* C1: on a view built from namespace N by shortcut(p1), ..., shortcut(pn), every key K
\* resolves to N, then the segments of p1, ..., pn in the order applied, then the segments of K
C1_ResolveOrder ==
    \A x \in Existing : \A K \in Keys :
        LET key == generateKey(heap, ViewAt(x), K)
        IN  /\ Len(key) >= 1
            /\ key[1] = ViewAt(x)._namespace
            /\ IsSegmentsOfAll(Tail(key), Append(GhostAt(x).parts, K))

\* a view reached by two shortcut calls, the first with a dotted string, the second with an array
C1_Witness ==
    \E x \in Existing :
        /\ Len(GhostAt(x).parts) = 2
        /\ GhostAt(x).parts[1] = StrKey(<<"a", ".", "b">>)
        /\ isArray(GhostAt(x).parts[2])

\* the keys the resolutions of two states, or of two views, are compared on
ProbeKeys ==
    {StrKey(<<>>), StrKey(<<"a">>), StrKey(<<"a", ".", "b">>), StrKey(<<".">>),
     ArrKey(<<>>), ArrKey(<<<<"a">>>>), ArrKey(<<<<"a">>, <<"b">>>>)}

\* a derived view never resolves a key to what the view it was derived from resolves it to
DerivedDiffers ==
    \A x \in Existing :
        GhostAt(x).parent # 0 =>
            \A K \in ProbeKeys :
                generateKey(heap, ViewAt(x), K) # generateKey(heap, views[x[1]][GhostAt(x).parent], K)

\* C2: a shortcut call leaves the namespace, the extension list and the backend reference of
\* every existing view as they were, so each view resolves every key as before, and the view it
\* returns resolves every key differently from the view it was called on
C2_ShortcutFrame ==
    [][/\ \A x \in Existing :
            /\ views'[x[1]][x[2]] = ViewAt(x)
            /\ heap'[ViewAt(x)._namespaceExtenders] = heap[ViewAt(x)._namespaceExtenders]
            /\ \A K \in ProbeKeys :
                  generateKey(heap', views'[x[1]][x[2]], K) = generateKey(heap, ViewAt(x), K)
       /\ DerivedDiffers']_vars

\* two shortcuts branching from the same parent
C2_Witness ==
    \E x \in Existing, y \in Existing :
        /\ x # y
        /\ GhostAt(x).parent # 0
        /\ x[1] = y[1]
        /\ GhostAt(x).parent = GhostAt(y).parent
        /\ ViewAt(x)._storage = views[x[1]][GhostAt(x).parent]._storage

(* ------------- a synchronous and an asynchronous view side by side ------- *)
\* The i-th view of each mode is built the same way: same namespace, same shortcuts,
\* over the backend of its mode; both backends start with the same contents.
Request(op, h, view, in) ==
    CASE op = "getItem" -> getItem(h, view, in.key, in.def)
      [] op = "getItems" -> getItems(h, view, in.batch)
      [] op = "setItem" -> setItem(h, view, in.key, in.value)
      [] op = "setItems" -> setItems(h, view, in.kv, dev)
      [] op = "hasKey" -> hasKey(h, view, in.key)
      [] op = "hasKeys" -> hasKeys(h, view, in.keys)
      [] op = "removeItem" -> removeItem(h, view, in.key)
      [] op = "removeItems" -> removeItems(h, view, in.keys)
      [] op = "clear" -> clear(h, view)

\* One public call made on the i-th synchronous view and on the i-th asynchronous view.
\* The synchronous call is over when it returns; the asynchronous one leaves a handle.
\* The caller takes the outcome of a call (Done) before its next call.
Perform(op, i, in) ==
    /\ last.op = "none"
    /\ pending = <<>>
    /\ i \in 1..Len(views[SYNC])
    /\ LET vS == views[SYNC][i]
           vA == views[ASYNC][i]
           reqS == Request(op, heap, vS, in)
           reqA == Request(op, heap, vA, in)
           bS == IF reqS.err = "" THEN BackendCall(store[vS._storage], reqS.call)
                 ELSE [raw |-> Fail(reqS.err), st |-> store[vS._storage]]
           bA == IF reqA.err = "" THEN BackendCall(store[vA._storage], reqA.call)
                 ELSE [raw |-> Fail(reqA.err), st |-> store[vA._storage]]
           outS == IF reqS.err = "" THEN SyncResult(op, bS.raw, reqS.cont) ELSE Plain(Fail(reqS.err))
           rec == [op |-> op, mode |-> SYNC, view |-> i, in |-> in, raw |-> bS.raw,
                   before |-> IF op = "clear" THEN store[vS._storage] ELSE EmptyStore,
                   sync |-> outS.res, invokedS |-> outS.invoked,
                   async |-> IF reqA.err = "" THEN Unsettled ELSE Fail(reqA.err),
                   invokedA |-> 0, settled |-> reqA.err # "",
                   callsS |-> IF reqS.err = "" THEN <<reqS.call>> ELSE <<>>,
                   callsA |-> IF reqA.err = "" THEN <<reqA.call>> ELSE <<>>,
                   warnS |-> reqS.warnings, warnA |-> reqA.warnings]
       IN  /\ Cardinality(DOMAIN bS.st) <= MaxEntries
           /\ store' = [store EXCEPT ![vS._storage] = bS.st, ![vA._storage] = bA.st]
           /\ last' = rec
           /\ pending' = IF reqA.err = "" THEN <<[rec |-> rec, promise |-> bA.raw, cont |-> reqA.cont]>>
                         ELSE <<>>
    /\ UNCHANGED <<views, heap, ghost, dev>>

\* the oldest handle settles: its continuation runs on the backend's answer
Settle ==
    /\ pending # <<>>
    /\ LET hd == Head(pending)
           out == AsyncResult(hd.rec.op, hd.promise, hd.cont)
       IN  last' = [hd.rec EXCEPT !.async = out.res, !.invokedA = out.invoked, !.settled = TRUE]
    /\ pending' = Tail(pending)
    /\ UNCHANGED <<views, heap, ghost, store, dev, plan>>

\* the caller has seen the outcome of its call
Done ==
    /\ last.op # "none"
    /\ last.settled
    /\ last' = NoOp
    /\ UNCHANGED <<views, heap, ghost, store, pending, dev, plan>>

Derived == Cardinality({i \in 1..Len(ghost[SYNC]) : ghost[SYNC][i].parent # 0})

\* makeShortcut on both views of a pair
PShortcut(i, p) ==
    /\ last.op = "none"
    /\ pending = <<>>
    /\ Derived < MaxDerived
    /\ i \in 1..Len(views[SYNC])
    /\ IF ShortcutRejects(p)
       THEN /\ last' = [NoOp EXCEPT !.op = "makeShortcut", !.view = i, !.in.part = p,
                                    !.sync = Fail("JSSAPIError"), !.async = Fail("JSSAPIError")]
            /\ UNCHANGED <<views, heap, ghost>>
       ELSE LET rS == makeShortcut(heap, views[SYNC][i], p)
                rA == makeShortcut(rS.heap, views[ASYNC][i], p)
                g == [parent |-> i, parts |-> Append(ghost[SYNC][i].parts, p)]
            IN  /\ views' = [views EXCEPT ![SYNC] = Append(@, rS.view), ![ASYNC] = Append(@, rA.view)]
                /\ heap' = rA.heap
                /\ ghost' = [m \in Modes |-> Append(ghost[m], g)]
                /\ last' = [NoOp EXCEPT !.op = "makeShortcut", !.view = i, !.in.part = p]
    /\ UNCHANGED <<store, pending, dev, plan>>

RECURSIVE ConstructAll(_, _, _)
ConstructAll(h, mode, namespaces) ==
    IF namespaces = <<>> THEN [views |-> <<>>, heap |-> h]
    ELSE LET c == Construct(h, mode, Backend(mode), Head(namespaces))
             r == ConstructAll(c.heap, mode, Tail(namespaces))
         IN  [views |-> <<c.view>> \o r.views, heap |-> r.heap]

\* one view per namespace and mode, both backends holding st
PairedInit(namespaces, st, isDev, call) ==
    LET cS == ConstructAll(<<>>, SYNC, namespaces)
        cA == ConstructAll(cS.heap, ASYNC, namespaces)
    IN  /\ views = [m \in Modes |-> IF m = SYNC THEN cS.views ELSE cA.views]
        /\ heap = cA.heap
        /\ ghost = [m \in Modes |-> [i \in 1..Len(namespaces) |-> Root]]
        /\ store = [b \in Backends |-> st]
        /\ last = NoOp
        /\ pending = <<>>
        /\ dev = isDev
        /\ plan = call

ViewIds == 1..(2 + MaxDerived)

(* ------------------------- reads: SpecGet ------------------------------- *)
N == <<"n">>
M == <<"m">>
A == <<"a">>
B == <<"b">>

StoreOf(S) == [k \in {e[1] : e \in S} |-> (CHOOSE e \in S : e[1] = k)[2]]

ReadStores ==
    {StoreOf({}), StoreOf({<<<<N, A>>, 1>>}), StoreOf({<<<<N, B>>, 0>>}),
     StoreOf({<<<<N, A>>, 1>>, <<<<N, A, A>>, 2>>})}

ReadKeys == {StrKey(A), ArrKey(<<A>>), StrKey(B), StrKey(<<"a", ".", "a">>), StrKey(<<>>), ArrKey(<<>>), OtherKey}

Defs == {NoDef, DefVal(0), DefVal(1), DefFn(2), DefFnThrow}

EntryKeys == {StrKey(A), ArrKey(<<A>>), StrKey(<<>>)}
EntryDefs == {NoDef, DefVal(1), DefFn(2), DefFnThrow}
Entries == {PlainEntry(k) : k \in EntryKeys \cup {OtherKey}}
               \cup {RecEntry(k, d) : k \in {StrKey(A), StrKey(B)}, d \in EntryDefs}
               \cup {RecEntry(StrKey(<<>>), DefVal(1))}

\* caller keys with the identity of the array objects: ref 0 for a string, else the object
HasKeysArgs ==
    {[key |-> StrKey(A), ref |-> 0], [key |-> StrKey(B), ref |-> 0],
     [key |-> ArrKey(<<A>>), ref |-> 1], [key |-> ArrKey(<<A>>), ref |-> 2],
     [key |-> ArrKey(<<B>>), ref |-> 3], [key |-> OtherKey, ref |-> 0]}

ReadPlans ==
    {[op |-> "getItem", in |-> [NoInput EXCEPT !.key = k, !.def = d]] : k \in ReadKeys, d \in Defs}
    \cup {[op |-> "getItems", in |-> [NoInput EXCEPT !.batch = b]] : b \in SeqsUpTo(Entries, MaxBatch)}
    \cup {[op |-> "hasKey", in |-> [NoInput EXCEPT !.key = k]] : k \in ReadKeys}
    \cup {[op |-> "hasKeys", in |-> [NoInput EXCEPT !.keys = ks]] : ks \in SeqsUpTo(HasKeysArgs, MaxBatch)}

InitGet == \E st \in ReadStores, call \in ReadPlans : PairedInit(<<N>>, st, FALSE, call)

Planned(op) ==
    /\ plan.op = op
    /\ \E i \in ViewIds : Perform(op, i, plan.in)
    /\ plan' = NoPlan

GGetItem == Planned("getItem")
GGetItems == Planned("getItems")
GHasKey == Planned("hasKey")
GHasKeys == Planned("hasKeys")
GShortcut == plan.op # "none" /\ \E i \in ViewIds : PShortcut(i, StrKey(A))

NextGet == GGetItem \/ GGetItems \/ GHasKey \/ GHasKeys \/ GShortcut \/ Settle \/ Done

SpecGet == InitGet /\ [][NextGet]_vars

(* ------------------------- properties of SpecGet ------------------------ *)
\* a call that got as far as the backend
Reached(op) == last.op = op /\ last.callsS # <<>>

\* what a default yields: its value, what the producer returns, or the error the producer raises
FromDefault(def) ==
    CASE def.t = "val" -> Ok(def.v)
      [] def.t = "fn" /\ def.e = "" -> Ok(def.v)
      [] def.t = "fn" /\ def.e # "" -> Fail(def.e)

\* C3: getItem(K, def) returns the backend's value when the lookup succeeds, never invoking def;
\* when the lookup fails it yields def, or what the producer def returns or raises, or, with no
\* def, the backend's own failure; a synchronous call and a settled asynchronous handle alike
C3_GetItemDefault ==
    Reached("getItem") =>
        LET def == last.in.def
            raw == StoreGet(store[Backend(SYNC)], generateKey(heap, views[SYNC][last.view], last.in.key))
            expected == IF raw.t = "ok" THEN raw
                        ELSE IF def.t = "undef" THEN Fail(raw.e)
                        ELSE FromDefault(def)
        IN  /\ last.sync = expected
            /\ raw.t = "ok" => last.invokedS = 0
            /\ last.settled => /\ last.async = expected
                               /\ raw.t = "ok" => last.invokedA = 0

\* a failed lookup answered by a producer, and the handle has settled
C3_Witness ==
    /\ Reached("getItem")
    /\ last.settled
    /\ last.raw.t = "err"
    /\ last.in.def = DefFn(2)
    /\ last.async = Ok(2)

\* the list a getItems call yields, NotAList when it threw or was rejected
NotAList == <<Fail("not a list")>>
ListOf(out) == IF out.t = "ok" THEN out.list ELSE NotAList

PositionsKeep(list) ==
    LET batch == last.in.batch
        raw == last.raw.list
    IN  /\ Len(list) = Len(batch)
        /\ \A i \in 1..Len(batch) :
              /\ raw[i].t = "ok" => list[i] = raw[i]
              /\ (raw[i].t = "err" /\ DefaultOf(batch[i]).t # "undef" /\ DefaultOf(batch[i]).e = "")
                    => list[i] = Ok(DefaultOf(batch[i]).v)

\* C4: the result of getItems has the length and order of its input; a position the backend
\* answered keeps the answer, a position the backend failed on holds the default of the entry
\* at that very position, also when other entries resolve to the same canonical key
C4_GetItemsPositional ==
    Reached("getItems") =>
        /\ last.sync.t = "ok"
        /\ PositionsKeep(ListOf(last.sync))
        /\ last.settled => (last.async.t = "ok" /\ PositionsKeep(ListOf(last.async)))

\* two entries for one canonical key, both lookups failing, each with its own default
C4_Witness ==
    /\ Reached("getItems")
    /\ last.settled
    /\ Len(last.in.batch) = 2
    /\ last.callsS[1].keys[1] = last.callsS[1].keys[2]
    /\ last.raw.list[1].t = "err"
    /\ last.in.batch[1].def = DefVal(1)
    /\ last.in.batch[2].def = DefFn(2)
    /\ last.async.list = <<Ok(1), Ok(2)>>

NoDefaultFailures ==
    {i \in 1..Len(last.in.batch) :
        last.raw.list[i].t = "err" /\ DefaultOf(last.in.batch[i]).t = "undef"}

\* C5 as claimed: a failed lookup with no default makes getItems throw, or reject its handle
C5_AsClaimed ==
    (Reached("getItems") /\ NoDefaultFailures # {}) =>
        /\ last.sync.t = "err"
        /\ last.settled => last.async.t = "err"

\* C5 amended: a failed lookup with no default leaves the backend's failure marker at its
\* position of the result list, which getItems returns (or fulfils its handle with) normally
C5_FailureStaysInList ==
    (Reached("getItems") /\ NoDefaultFailures # {}) =>
        /\ last.sync.t = "ok"
        /\ \A i \in NoDefaultFailures : ListOf(last.sync)[i] = Fail(last.raw.list[i].e)
        /\ last.settled =>
              /\ last.async.t = "ok"
              /\ \A i \in NoDefaultFailures : ListOf(last.async)[i] = Fail(last.raw.list[i].e)

\* a settled batch of a found key and a missing key without default
C5_Witness ==
    /\ Reached("getItems")
    /\ last.settled
    /\ Len(last.in.batch) = 2
    /\ last.raw.list[1].t = "ok"
    /\ 2 \in NoDefaultFailures
    /\ last.async.list[2] = Fail(NotFound)

MapsPositions(out) ==
    LET orig == last.in.keys
        raw == last.raw.list
    IN  /\ out.t = "ok"
        /\ \A i \in 1..Len(orig) : \E j \in 1..Len(out.map) :
              out.map[j].k = orig[i] /\ out.map[j].v = raw[i].b
        /\ \A j \in 1..Len(out.map) : \E i \in 1..Len(orig) : out.map[j].k = orig[i]
        /\ \A j \in 1..Len(out.map), k \in 1..Len(out.map) :
              out.map[j].k = out.map[k].k => j = k

\* C9: hasKeys asks the backend once, with the canonical keys of the caller's keys in their
\* order, and maps each of the caller's own keys to the boolean answered at its position
C9_HasKeysMapping ==
    Reached("hasKeys") =>
        /\ last.callsS = <<Call("hasKeys",
                               [i \in 1..Len(last.in.keys) |->
                                   generateKey(heap, views[SYNC][last.view], last.in.keys[i].key)],
                               <<>>)>>
        /\ last.callsA = <<Call("hasKeys",
                               [i \in 1..Len(last.in.keys) |->
                                   generateKey(heap, views[ASYNC][last.view], last.in.keys[i].key)],
                               <<>>)>>
        /\ last.raw.list = [i \in 1..Len(last.in.keys) |->
                               OkBool(last.callsS[1].keys[i] \in DOMAIN store[Backend(SYNC)])]
        /\ MapsPositions(last.sync)
        /\ last.settled => MapsPositions(last.async)

\* a present key and an absent key, answered true and false
C9_Witness ==
    /\ Reached("hasKeys")
    /\ last.settled
    /\ Len(last.in.keys) = 2
    /\ last.raw.list[1].b
    /\ ~last.raw.list[2].b
    /\ Len(last.async.map) = 2

(* ------------------------ batch writes: SpecSet ------------------------- *)
\* entries of the keyValueMap argument, array keys with the identity of the array object
KVArgs ==
    {[key |-> k[1], ref |-> k[2], value |-> v] :
        k \in {<<StrKey(A), 0>>, <<StrKey(<<"a", ".", "b">>), 0>>, <<StrKey(B), 0>>,
               <<ArrKey(<<A, B>>), 1>>, <<ArrKey(<<A>>), 2>>},
        v \in {1, 2}}

\* a Map (or an object) holds a key once
IsKeyValueMap(kv) == \A i \in 1..Len(kv), j \in 1..Len(kv) : SameValueZero(kv[i], kv[j]) => i = j

SetPlans ==
    {[op |-> "setItems", in |-> [NoInput EXCEPT !.kv = kv]] :
        kv \in {b \in SeqsUpTo(KVArgs, MaxBatch) : IsKeyValueMap(b)}}

InitSet == \E isDev \in BOOLEAN, call \in SetPlans : PairedInit(<<N>>, EmptyStore, isDev, call)

OSetItems == Planned("setItems")
OShortcut == plan.op # "none" /\ \E i \in ViewIds : PShortcut(i, StrKey(A))

NextSet == OSetItems \/ OShortcut \/ Settle \/ Done

SpecSet == InitSet /\ [][NextSet]_vars

(* ------------------------- properties of SpecSet ------------------------ *)
Elems(seq) == {seq[i] : i \in 1..Len(seq)}

StrictPrefix(p, k) == IsPrefix(p, k) /\ Len(p) < Len(k)

\* the warnings are those of the pairs Related names, and no others
WarnsExactly(warnings, Related(_, _)) ==
    LET n == Len(last.in.kv)
    IN  /\ \A i \in 1..n, j \in 1..n :
              i # j => ((<<i, j>> \in Elems(warnings) \/ <<j, i>> \in Elems(warnings)) <=> Related(i, j))
        /\ \A i \in 1..n : <<i, i>> \notin Elems(warnings)

\* C10 as claimed: a pair of entries is warned about exactly when one canonical key is a strict
\* prefix of the other
C10_AsClaimed ==
    (dev /\ Reached("setItems")) =>
        LET k == last.callsS[1].keys
            v == last.callsS[1].vals
            Related(i, j) == /\ StrictPrefix(k[i], k[j]) \/ StrictPrefix(k[j], k[i])
                             /\ ~(k[i] = k[j] /\ v[i] = v[j])
        IN  WarnsExactly(last.warnS, Related) /\ WarnsExactly(last.warnA, Related)

\* C10 amended: in a development build a pair of distinct entries is warned about exactly when
\* one canonical key is a prefix of, or equal to, the other and the two entries are not equal
\* in both key and value; no other warning is printed
C10_OverlapWarning ==
    (dev /\ Reached("setItems")) =>
        LET k == last.callsS[1].keys
            v == last.callsS[1].vals
            Related(i, j) == /\ IsPrefix(k[i], k[j]) \/ IsPrefix(k[j], k[i])
                             /\ ~(k[i] = k[j] /\ v[i] = v[j])
        IN  WarnsExactly(last.warnS, Related) /\ WarnsExactly(last.warnA, Related)

\* a development build writing "a.b" and ["a", "b"] with different values
C10_Witness ==
    /\ dev
    /\ Reached("setItems")
    /\ Len(last.in.kv) = 2
    /\ last.callsS[1].keys[1] = last.callsS[1].keys[2]
    /\ last.callsS[1].vals[1] # last.callsS[1].vals[2]
    /\ last.warnS # <<>>

(* ---------------------- sequences of calls: SpecAll --------------------- *)
\* a valid key, the empty string, the empty array, and a key that is neither string nor array
AllKeys == {StrKey(A), StrKey(<<>>), ArrKey(<<>>), OtherKey}
WriteKeys == {StrKey(A), StrKey(<<>>), OtherKey}
AllDefs == {NoDef, DefVal(1)}
AllBatches ==
    {<<RecEntry(StrKey(A), DefFn(2)), PlainEntry(StrKey(<<>>))>>,
     <<PlainEntry(ArrKey(<<>>))>>, <<PlainEntry(OtherKey)>>}
AllKeyLists == {<<StrKey(A), StrKey(<<>>)>>, <<ArrKey(<<>>)>>, <<OtherKey>>}
WithRefs(keys) == [i \in 1..Len(keys) |-> [key |-> keys[i], ref |-> IF isArray(keys[i]) THEN i ELSE 0]]
AllKVs ==
    {<<[key |-> StrKey(A), ref |-> 0, value |-> 1]>>,
     <<[key |-> StrKey(A), ref |-> 0, value |-> 2], [key |-> StrKey(<<>>), ref |-> 0, value |-> 1]>>,
     <<[key |-> OtherKey, ref |-> 0, value |-> 1]>>}
AllParts == {StrKey(A), StrKey(<<>>)}

InitAll == PairedInit(<<N, M>>, EmptyStore, TRUE, NoPlan)

Called(op, i, in) == Perform(op, i, in) /\ UNCHANGED plan

AGetItem == \E i \in ViewIds, k \in AllKeys, d \in AllDefs :
                Called("getItem", i, [NoInput EXCEPT !.key = k, !.def = d])
AGetItems == \E i \in ViewIds, b \in AllBatches : Called("getItems", i, [NoInput EXCEPT !.batch = b])
ASetItem == \E i \in ViewIds, k \in WriteKeys :
                Called("setItem", i, [NoInput EXCEPT !.key = k, !.value = 1])
ASetItems == \E i \in ViewIds, kv \in AllKVs : Called("setItems", i, [NoInput EXCEPT !.kv = kv])
AHasKey == \E i \in ViewIds, k \in AllKeys : Called("hasKey", i, [NoInput EXCEPT !.key = k])
AHasKeys == \E i \in ViewIds, ks \in AllKeyLists :
                Called("hasKeys", i, [NoInput EXCEPT !.keys = WithRefs(ks)])
ARemoveItem == \E i \in ViewIds, k \in AllKeys : Called("removeItem", i, [NoInput EXCEPT !.key = k])
ARemoveItems == \E i \in ViewIds, ks \in AllKeyLists :
                    Called("removeItems", i, [NoInput EXCEPT !.keys = ks])
AClear == \E i \in ViewIds : Called("clear", i, NoInput)
AShortcut == \E i \in ViewIds, p \in AllParts : PShortcut(i, p)

NextAll ==
    \/ AGetItem \/ AGetItems \/ ASetItem \/ ASetItems \/ AHasKey \/ AHasKeys
    \/ ARemoveItem \/ ARemoveItems \/ AClear \/ AShortcut \/ Settle \/ Done

SpecAll == InitAll /\ [][NextAll]_vars

(* ------------------------- properties of SpecAll ------------------------ *)
KeyOps == {"getItem", "getItems", "setItem", "setItems", "hasKey", "hasKeys",
           "removeItem", "removeItems"}

\* the keys a call was given
InputKeys(rec) ==
    CASE rec.op \in {"getItem", "setItem", "hasKey", "removeItem"} -> {rec.in.key}
      [] rec.op = "getItems" -> {rec.in.batch[i].key : i \in 1..Len(rec.in.batch)}
      [] rec.op = "setItems" -> {rec.in.kv[i].key : i \in 1..Len(rec.in.kv)}
      [] rec.op = "hasKeys" -> {rec.in.keys[i].key : i \in 1..Len(rec.in.keys)}
      [] rec.op = "removeItems" -> {rec.in.keys[i] : i \in 1..Len(rec.in.keys)}
      [] OTHER -> {}

\* a non-empty string or a non-empty sequence of segments
ValidKey(k) == (isString(k) /\ k.str # <<>>) \/ (isArray(k) /\ k.arr # <<>>)

\* C6: a public operation given a key that is neither a non-empty string nor a non-empty
\* sequence fails, and issues no backend call
C6_InvalidKeyRejected ==
    (last.op \in KeyOps /\ \E k \in InputKeys(last) : ~ValidKey(k)) =>
        /\ last.sync.t = "err"
        /\ last.callsS = <<>>
        /\ last.callsA = <<>>
        /\ last.settled => last.async.t = "err"

\* C7: clear() issues one removal, of the key [N] whatever the view's extensions, after which
\* the backend holds no entry under N and every entry under another namespace as before
C7_ClearNamespace ==
    [][last'.op = "clear" =>
          LET ns == views[SYNC][last'.view]._namespace
          IN  /\ last'.callsS = <<Call("removeItem", <<<<ns>>>>, <<>>)>>
              /\ last'.callsA = <<Call("removeItem", <<<<ns>>>>, <<>>)>>
              /\ \A b \in Backends :
                    /\ DOMAIN store'[b] = {k \in DOMAIN store[b] : k[1] # ns}
                    /\ \A k \in DOMAIN store'[b] : store'[b][k] = store[b][k]]_vars

\* clear() on a derived view, with an entry of its namespace that lies outside the view's own
\* extended prefix, and an entry of another namespace that stays
C7_Witness ==
    /\ last.op = "clear"
    /\ last.settled
    /\ ghost[SYNC][last.view].parent # 0
    /\ LET ns == views[SYNC][last.view]._namespace
       IN  /\ \E k \in DOMAIN last.before :
                  /\ k[1] = ns
                  /\ ~IsPrefix(<<ns>> \o heap[views[SYNC][last.view]._namespaceExtenders], k)
           /\ \E k \in DOMAIN store[Backend(ASYNC)] : k[1] # ns

\* C8: a call on the synchronous view and the same call on the asynchronous view issue the same
\* backend calls, leave equal backend contents, and end with the same value or error once the
\* handle has settled; views derived by the same shortcuts resolve keys alike
C8_ModeIndependent ==
    /\ store[Backend(SYNC)] = store[Backend(ASYNC)]
    /\ last.callsS = last.callsA
    /\ last.warnS = last.warnA
    /\ last.settled => (last.sync = last.async /\ last.invokedS = last.invokedA)
    /\ Len(views[SYNC]) = Len(views[ASYNC])
    /\ \A i \in 1..Len(views[SYNC]) :
          /\ views[SYNC][i]._namespace = views[ASYNC][i]._namespace
          /\ heap[views[SYNC][i]._namespaceExtenders] = heap[views[ASYNC][i]._namespaceExtenders]
          /\ views[SYNC][i]._type = SYNC
          /\ views[ASYNC][i]._type = ASYNC

\* a failed lookup with a default, on a derived view, with the handle settled
C8_Witness ==
    /\ last.op = "getItem"
    /\ last.settled
    /\ ghost[SYNC][last.view].parent # 0
    /\ last.raw.t = "err"
    /\ last.in.def = DefVal(1)
    /\ last.async = Ok(1)
    /\ store[Backend(ASYNC)] # EmptyStore
====
